---- MODULE Spec2Model ----
(***************************************************************************)
(* A model of uber_ga/noise.py: the NoiseSource (noise table, block        *)
(* sampling, cumulative blocks with a prefix cache, cache eviction) and    *)
(* the NoiseAdder context manager that perturbs a list of variables and    *)
(* restores them on exit, and noise_seeds.  cumulative_block is modelled   *)
(* twice: as one step, and statement by statement for concurrent callers.  *)
(*                                                                         *)
(* Abstractions.  float32 values are integers: every sum the code forms is *)
(* formed here in the same left-to-right order, so rounding would act on   *)
(* both sides of every equality below in the same way.  numpy's            *)
(* RandomState is a deterministic stream: a seed fixes the state, each     *)
(* draw advances it.  An array of any shape is its flat, row-major         *)
(* sequence of elements (reshape keeps that order).                        *)
(***************************************************************************)
EXTENDS Integers, Sequences, FiniteSets, TLC

VARIABLES
    noise,      \* NoiseSource.noise: the table, a sequence of values
    cache,      \* NoiseSource._cache: prefix chain -> summed vector
    max_cache,  \* NoiseSource._max_cache
    store,      \* the values of NoiseAdder._variables held by the session
    seeds,      \* NoiseAdder._seeds
    old_vals,   \* NoiseAdder._old_vals
    scopes,     \* history: one record per `with` block currently open
    last,       \* history: the last operation, its arguments and outcome
    sizes,      \* history: the sizes of the direct calls of cumulative_block
    seen,       \* history: the chains of the direct calls of cumulative_block
                \*          that sampled a block
    evicted,    \* history: whether _evict_cache has deleted an entry
    returned,   \* history: the first direct call of block and what it returned
    generated,  \* the list noise_seeds returned last
    configured, \* history: the argument of the last call of seed
    threads,    \* per concurrent caller: where it is in cumulative_block, and
                \*   the locals of the call
    calls,      \* NoiseSource operations the caller may still make directly
    ops         \* NoiseAdder operations and store writes that may still happen

vars == <<noise, cache, max_cache, store, seeds, old_vals, scopes, last,
          sizes, seen, evicted, returned, generated, configured, threads,
          calls, ops>>

source == <<noise, cache, max_cache>>
adder == <<store, seeds, old_vals, scopes>>
history == <<sizes, seen, evicted, returned>>

----------------------------------------------------------------------------
(* Bounds *)

MaxCalls == 3       \* direct NoiseSource operations in SourceSpec
MaxDirect == 1      \* direct NoiseSource operations in Spec
MaxOps == 4         \* NoiseAdder operations and store writes in Spec
MaxDepth == 2       \* with blocks open at once
MaxScopeOps == 5    \* NoiseAdder operations and store writes in ScopeSpec
MaxCache == 3       \* max_cache, in cached elements
TableLen == 4       \* size of the noise table
MaxSeeds == 2       \* seeds asked of noise_seeds at once
DefaultSeed == 1337

TableSizes == {-1, 0, TableLen}
Sizes == {1, 2}
EmptySizes == {0}       \* further sizes asked for with the empty chain
DirectSizes == {0, 1, 2}
Seeds == {0, 1}
Mutations == {<<0, 1>>, <<1, 2>>}
ChainLengths == 0..3
Shapes == {<<1>>, <<1, 2>>}
ExtVals == {7}
Callers == {1, 2}       \* threads that call cumulative_block concurrently
SeedCounts == 0..MaxSeeds

RECURSIVE ChainsOfLen(_)
ChainsOfLen(n) ==
    IF n = 0 THEN {<<>>}
    ELSE {Append(c, m) : c \in ChainsOfLen(n - 1), m \in Mutations}

Chains == UNION {ChainsOfLen(n) : n \in ChainLengths}

\* The chains Spec draws from: those given to seed(), and those of direct
\* calls, which fill the cache the NoiseAdder then meets.
SeedChains == {c \in Chains : Len(c) \in {1, 2}}
DirectChains == {c \in Chains : Len(c) = 2 /\ c[2] = <<1, 2>>}

----------------------------------------------------------------------------
(* Values *)

None == [isNone |-> TRUE, v |-> <<>>]
Some(x) == [isNone |-> FALSE, v |-> x]

Ok(v) == [err |-> "none", val |-> v]
Raise(e) == [err |-> e, val |-> <<>>]

ZerosUninitialized(n) == [i \in 1..n |-> 1]

Zeros(n) == [i \in 1..n |-> 0]

VecScale(v, s) == [i \in 1..Len(v) |-> v[i] * s]

\* a + b on one-dimensional arrays, with numpy's broadcasting: equal lengths
\* add elementwise, a length-1 operand is stretched to the other's length,
\* anything else raises ValueError.
VecAdd(a, b) ==
    IF Len(a) = Len(b) THEN Ok([i \in 1..Len(a) |-> a[i] + b[i]])
    ELSE IF Len(a) = 1 THEN Ok([i \in 1..Len(b) |-> a[1] + b[i]])
    ELSE IF Len(b) = 1 THEN Ok([i \in 1..Len(a) |-> a[i] + b[1]])
    ELSE Raise("ValueError: broadcast")

RECURSIVE SumLens(_)
SumLens(arrays) ==
    IF arrays = <<>> THEN 0 ELSE Len(Head(arrays)) + SumLens(Tail(arrays))

----------------------------------------------------------------------------
(* Integers of more than 31 bits: hi * 2^16 + lo, with 0 <= lo < 2^16 *)

Limb == 2^16

Wide(hi, lo) == [hi |-> hi, lo |-> lo]

WidePred(w) == IF w.lo > 0 THEN Wide(w.hi, w.lo - 1) ELSE Wide(w.hi - 1, Limb - 1)

WideLess(a, b) == a.hi < b.hi \/ (a.hi = b.hi /\ a.lo < b.lo)

RECURSIVE SeqsOver(_, _)
SeqsOver(S, n) ==
    IF n = 0 THEN {<<>>} ELSE {Append(q, x) : q \in SeqsOver(S, n - 1), x \in S}

----------------------------------------------------------------------------
(* np.random.RandomState *)

\* RandomState(seed=seed) takes a seed from 0 to 2**32 - 1 and raises
\* ValueError for any other.
MaxRandomSeed == Wide(Limb - 1, Limb - 1)

SeedAccepted(w) == w.hi >= 0 /\ ~WideLess(MaxRandomSeed, w)

RandomState(seed) == seed % 16

Advance(state) == (13 * state + 7) % 16

RECURSIVE StateAfter(_, _)
StateAfter(state, n) == IF n = 0 THEN state ELSE Advance(StateAfter(state, n - 1))

\* state.normal(size=size): the i-th draw of the stream, as a value
Normal(state, size) == [i \in 1..size |-> (StateAfter(state, i) % 7) - 3]

\* state.randint(0, high=high, size=size), as 1-based positions.  An empty
\* range is an error unless no samples are taken.
Randint(state, high, size) ==
    IF high <= 0 /\ size # 0 THEN Raise("ValueError: low >= high")
    ELSE Ok([i \in 1..size |-> (StateAfter(state, i) % high) + 1])

----------------------------------------------------------------------------
(* NoiseSource *)

NoiseTable(seed, size) == Normal(RandomState(seed), size)

\* NoiseSource(seed, size): normal() raises for a negative size and returns
\* an empty array for size 0.
NewNoiseSource(seed, size) ==
    IF size < 0 THEN Raise("ValueError: negative dimensions")
    ELSE Ok(NoiseTable(seed, size))

blockMutHidden(size, seed) ==
    LET indices == Randint(RandomState(seed + Cardinality(DOMAIN cache)),
                           Len(noise), size)
    IN  IF indices.err # "none" THEN indices
        ELSE Ok([i \in 1..size |-> noise[indices.val[i]]])

block(size, seed) ==
    LET indices == Randint(RandomState(seed), Len(noise), size)
    IN  IF indices.err # "none" THEN indices
        ELSE Ok([i \in 1..size |-> noise[indices.val[i]]])

\* sum(self.block(size, seed) * scale for seed, scale in chain): Python's
\* sum, from 0, left to right.  0 + array is the array.
RECURSIVE SumBlocks(_, _)
SumBlocks(size, chain) ==
    LET n == Len(chain)
        term == VecScale(block(size, chain[n][1]).val, chain[n][2])
    IN  IF n = 1 THEN term
        ELSE VecAdd(SumBlocks(size, SubSeq(chain, 1, n - 1)), term).val

CacheKeyWhole(mutations) == mutations

CacheKey(mutations) == SubSeq(mutations, 1, Len(mutations) - 1)

Result(r, samples, c) ==
    [err |-> r.err, val |-> r.val, samples |-> samples, cache |-> c]

CumulativeBlockInPlace(c, size, mutations) ==
    IF mutations = <<>> THEN Result(Ok(Zeros(size)), 0, c)
    ELSE
      LET final == mutations[Len(mutations)]
          sampled == block(size, final[1])
      IN  IF sampled.err # "none" THEN Result(sampled, 1, c)
          ELSE
            LET final_block == VecScale(sampled.val, final[2])
                cache_key == CacheKey(mutations)
            IN  IF Len(mutations) = 1 THEN Result(Ok(final_block), 1, c)
                ELSE IF cache_key \in DOMAIN c
                THEN Result(VecAdd(c[cache_key], final_block), 1, c)
                ELSE
                  LET prefix == SumBlocks(size, cache_key)
                      total == VecAdd(prefix, final_block)
                  IN  Result(total, 1 + Len(cache_key),
                             (cache_key :> total.val) @@ c)

CumulativeBlockNoStore(c, size, mutations) ==
    IF mutations = <<>> THEN Result(Ok(Zeros(size)), 0, c)
    ELSE
      LET final == mutations[Len(mutations)]
          sampled == block(size, final[1])
      IN  IF sampled.err # "none" THEN Result(sampled, 1, c)
          ELSE
            LET final_block == VecScale(sampled.val, final[2])
                cache_key == CacheKey(mutations)
            IN  IF Len(mutations) = 1 THEN Result(Ok(final_block), 1, c)
                ELSE IF cache_key \in DOMAIN c
                THEN Result(VecAdd(c[cache_key], final_block), 1, c)
                ELSE
                  LET prefix == SumBlocks(size, cache_key)
                  IN  Result(VecAdd(prefix, final_block), 1 + Len(cache_key), c)

\* cumulative_block run against cache c: the value returned or the error
\* raised, the number of block() calls made, and the cache afterwards.
CumulativeBlockOn(c, size, mutations) ==
    IF mutations = <<>> THEN Result(Ok(Zeros(size)), 0, c)
    ELSE
      LET final == mutations[Len(mutations)]
          sampled == block(size, final[1])
      IN  IF sampled.err # "none" THEN Result(sampled, 1, c)
          ELSE
            LET final_block == VecScale(sampled.val, final[2])
                cache_key == CacheKey(mutations)
            IN  IF Len(mutations) = 1 THEN Result(Ok(final_block), 1, c)
                ELSE IF cache_key \in DOMAIN c
                THEN Result(VecAdd(c[cache_key], final_block), 1, c)
                ELSE
                  LET prefix == SumBlocks(size, cache_key)
                  IN  Result(VecAdd(prefix, final_block),
                             1 + Len(cache_key),
                             (cache_key :> prefix) @@ c)

ResultAliasPrefix(mutations) ==
    IF Len(mutations) >= 2 THEN Some(CacheKey(mutations)) ELSE None

\* The cache entry whose array the object returned by cumulative_block is:
\* none.  Every return hands out the value of an expression, zeros(),
\* block * scale or a + b, which is an array of its own.
ResultAlias(mutations) == None

RECURSIVE CacheSizeOf(_)
CacheSizeOf(c) ==
    IF DOMAIN c = {} THEN 0
    ELSE LET k == CHOOSE x \in DOMAIN c : TRUE
         IN  Len(c[k]) + CacheSizeOf([x \in DOMAIN c \ {k} |-> c[x]])

_cache_size == CacheSizeOf(cache)

Without(c, k) == [x \in DOMAIN c \ {k} |-> c[x]]

\* The caches the loop of _evict_cache can end with where a key view is
\* indexable (Python 2): the first key, in the dict's arbitrary order, is
\* deleted until the budget is met.
RECURSIVE EvictedFrom(_)
EvictedFrom(c) ==
    IF CacheSizeOf(c) <= max_cache THEN {c}
    ELSE UNION {EvictedFrom(Without(c, k)) : k \in DOMAIN c}

----------------------------------------------------------------------------
(* History *)

NoCall ==
    [op |-> "init", size |-> 0, chain |-> <<>>, seed |-> 0, err |-> "none",
     val |-> <<>>, samples |-> 0, hit |-> FALSE, hitLen |-> 0,
     warm |-> FALSE, appended |-> FALSE, requeried |-> FALSE, evicted |-> FALSE,
     over |-> FALSE, exc |-> FALSE, ret |-> "None", failed |-> FALSE, clean |-> FALSE, wrote |-> FALSE,
     moved |-> FALSE, pre |-> <<>>, cache0 |-> <<>>, alias |-> None]

\* What a call of cumulative_block(size, mutations) that returns r leaves in
\* the history record, given the cache and the history it started from.
CallRecord(op, size, mutations, r) ==
    LET hit == Len(mutations) >= 2 /\ CacheKey(mutations) \in DOMAIN cache
    IN  [NoCall EXCEPT
            !.op = op, !.size = size, !.chain = mutations, !.err = r.err,
            !.val = r.val, !.samples = r.samples, !.hit = hit,
            !.hitLen = IF hit THEN Len(cache[CacheKey(mutations)]) ELSE 0,
            !.warm = \E c \in seen : Len(c) >= 2 /\ Len(mutations) >= 2
                                     /\ CacheKey(c) = CacheKey(mutations),
            !.appended = mutations # <<>> /\ CacheKey(mutations) \in seen,
            !.requeried = mutations \in seen,
            !.evicted = evicted,
            !.alias = IF r.err = "none" THEN ResultAlias(mutations) ELSE None,
            !.pre = store, !.cache0 = cache]

Sampled(mutations, r) ==
    IF mutations # <<>> /\ r.err # "ValueError: low >= high"
    THEN seen \cup {mutations} ELSE seen

\* A direct call on the NoiseSource
MayCall == calls > 0

Call ==
    calls' = calls - 1 /\ ops' = ops /\ UNCHANGED <<generated, configured, threads>>

\* An operation on the NoiseAdder or a write to the store
MayStep == ops > 0

Step ==
    ops' = ops - 1 /\ calls' = calls /\ UNCHANGED <<generated, configured, threads>>

\* A caller that is not inside cumulative_block
Idle ==
    [pc |-> "idle", size |-> 0, chain |-> <<>>, final_block |-> <<>>,
     cache_key |-> <<>>, prefix |-> <<>>, err |-> "none", val |-> <<>>,
     raced |-> FALSE]

----------------------------------------------------------------------------
(* Initial state: NoiseSource.__init__, NoiseAdder.__init__ *)

InitialStore(shape) == [i \in 1..Len(shape) |-> [j \in 1..shape[i] |-> 10 * i + j]]

Constructed(table_size, shape) ==
    /\ NewNoiseSource(DefaultSeed, table_size).err = "none"
    /\ noise = NewNoiseSource(DefaultSeed, table_size).val
    /\ cache = <<>>
    /\ max_cache = MaxCache
    /\ store = InitialStore(shape)
    /\ seeds = None
    /\ old_vals = None
    /\ scopes = <<>>
    /\ last = NoCall
    /\ sizes = {}
    /\ seen = {}
    /\ evicted = FALSE
    /\ returned = NoCall
    /\ generated = <<>>
    /\ configured = <<>>
    /\ threads = [t \in Callers |-> Idle]

Init ==
    /\ \E shape \in Shapes : Constructed(TableLen, shape)
    /\ calls = MaxDirect
    /\ ops = MaxOps

\* A session that only calls the NoiseSource
InitSource ==
    /\ \E n \in TableSizes : Constructed(n, <<1>>)
    /\ calls = MaxCalls
    /\ ops = 0

----------------------------------------------------------------------------
(* Operations of NoiseSource *)

Block(size, seed) ==
    /\ MayCall
    /\ LET r == block(size, seed)
       IN  /\ last' = [NoCall EXCEPT !.op = "block", !.size = size, !.seed = seed,
                                     !.err = r.err, !.val = r.val, !.samples = 1,
                                     !.pre = store, !.cache0 = cache]
           /\ returned' = IF returned.op = "block" THEN returned
                          ELSE [NoCall EXCEPT !.op = "block", !.size = size,
                                              !.seed = seed, !.err = r.err,
                                              !.val = r.val, !.cache0 = cache]
    /\ Call
    /\ UNCHANGED <<source, adder, sizes, seen, evicted>>

CumulativeBlock(size, mutations) ==
    /\ MayCall
    /\ LET r == CumulativeBlockOn(cache, size, mutations)
       IN  /\ cache' = r.cache
           /\ last' = CallRecord("cumulative_block", size, mutations, r)
           /\ seen' = Sampled(mutations, r)
    /\ sizes' = sizes \cup {size}
    /\ Call
    /\ UNCHANGED <<noise, max_cache, adder, evicted, returned>>

\* The caller assigns v to every element of the array that the last call of
\* cumulative_block returned to it.
WriteResult(v) ==
    /\ MayCall
    /\ last.op = "cumulative_block"
    /\ last.err = "none"
    /\ last.val # <<>>
    /\ LET written == [i \in 1..Len(last.val) |-> v]
       IN  /\ cache' = IF last.alias.isNone \/ last.alias.v \notin DOMAIN cache
                        THEN cache
                        ELSE [cache EXCEPT ![last.alias.v] = written]
           /\ last' = [last EXCEPT !.op = "write_result", !.val = written,
                                   !.cache0 = cache]
    /\ Call
    /\ UNCHANGED <<noise, max_cache, adder, history>>

\* _evict_cache.  self._cache.keys()[0] indexes the key view: where the view
\* is a list the loop deletes entries, where it is not, the first iteration
\* raises TypeError.  The loop is not entered when the cache is in budget.
EvictCache ==
    /\ MayCall
    /\ \/ /\ cache' \in EvictedFrom(cache)
          /\ evicted' = (evicted \/ cache' # cache)
          /\ last' = [NoCall EXCEPT !.op = "evict", !.over = _cache_size > max_cache,
                                    !.pre = store, !.cache0 = cache]
       \/ /\ _cache_size > max_cache
          /\ cache' = cache
          /\ evicted' = evicted
          /\ last' = [NoCall EXCEPT !.op = "evict", !.over = TRUE,
                                    !.err = "TypeError: keys", !.pre = store,
                                    !.cache0 = cache]
    /\ Call
    /\ UNCHANGED <<noise, max_cache, adder, sizes, seen, returned>>

----------------------------------------------------------------------------
(* Operations of NoiseAdder *)

\* The loop of __enter__: each variable takes the next sub_size elements of
\* the noise, reshaped to its shape (ValueError when fewer are left), and
\* the noise is advanced past them.  Elements left over are dropped.
RECURSIVE NewVals(_, _)
NewVals(olds, nz) ==
    IF olds = <<>> THEN Ok(<<>>)
    ELSE
      LET old_val == Head(olds)
          sub_size == Len(old_val)
      IN  IF Len(nz) < sub_size THEN Raise("ValueError: reshape")
          ELSE
            LET rest == NewVals(Tail(olds), SubSeq(nz, sub_size + 1, Len(nz)))
            IN  IF rest.err # "none" THEN rest
                ELSE Ok(<<VecAdd(old_val, SubSeq(nz, 1, sub_size)).val>> \o rest.val)

Entered(err, c, olds, values, nz, samples) ==
    [err |-> err, cache |-> c, old_vals |-> olds, store |-> values, val |-> nz,
     samples |-> samples]

EnterWritesFirst(sizeOk) ==
    LET size == SumLens(store)
        r == CumulativeBlockOn(cache, size, seeds.v)
        first == [store EXCEPT ![1] = [j \in DOMAIN @ |-> 0]]
    IN  IF ~sizeOk THEN Entered("TypeError: size", cache, old_vals, store, <<>>, 0)
        ELSE IF r.err # "none"
        THEN Entered(r.err, r.cache, Some(store), first, <<>>, r.samples)
        ELSE
          LET new_vals == NewVals(store, r.val)
          IN  IF new_vals.err # "none"
              THEN Entered(new_vals.err, r.cache, Some(store), first, r.val, r.samples)
              ELSE Entered("none", r.cache, Some(store), new_vals.val, r.val, r.samples)

\* __enter__.  sizeOk: whether the reductions over generator expressions
\* that compute size yield the element count or raise TypeError (numpy does
\* either, by version and argument).  seeds.v is empty for None as for an
\* empty chain: both are falsy in cumulative_block.
EnterOn(sizeOk) ==
    LET size == SumLens(store)
        r == CumulativeBlockOn(cache, size, seeds.v)
    IN  IF ~sizeOk THEN Entered("TypeError: size", cache, old_vals, store, <<>>, 0)
        ELSE IF r.err # "none"
        THEN Entered(r.err, r.cache, old_vals, store, <<>>, r.samples)
        ELSE
          LET new_vals == NewVals(store, r.val)
          IN  IF new_vals.err # "none"
              THEN Entered(new_vals.err, r.cache, Some(store), store, r.val, r.samples)
              ELSE Entered("none", r.cache, Some(store), new_vals.val, r.val, r.samples)

\* The with blocks that are open: the store before each was entered, whether
\* no other entry was attempted inside it, whether the store was written from
\* outside inside it, whether its entry changed the store, and whether an
\* entry attempted inside it raised.
Opened(values) ==
    [pre |-> store, clean |-> TRUE, wrote |-> FALSE, moved |-> values # store,
     failed |-> FALSE]

Failed(stack) ==
    [i \in 1..Len(stack) |-> [stack[i] EXCEPT !.clean = FALSE, !.failed = TRUE]]

Unclean(stack) == [i \in 1..Len(stack) |-> [stack[i] EXCEPT !.clean = FALSE]]

Written(stack) == [i \in 1..Len(stack) |-> [stack[i] EXCEPT !.wrote = TRUE]]

SeededOnce(mutations) == IF seeds.isNone THEN Some(mutations) ELSE seeds

\* self._seeds after seed(mutations)
Seeded(mutations) == Some(mutations)

\* seed
Seed(mutations) ==
    /\ MayStep
    /\ seeds' = Seeded(mutations)
    /\ configured' = mutations
    /\ last' = [NoCall EXCEPT !.op = "seed", !.chain = mutations, !.pre = store,
                              !.cache0 = cache, !.ret = "self"]
    /\ ops' = ops - 1
    /\ calls' = calls
    /\ UNCHANGED <<generated, threads>>
    /\ UNCHANGED <<source, store, old_vals, scopes, history>>

Enter ==
    /\ MayStep
    /\ Len(scopes) < MaxDepth
    /\ \E sizeOk \in BOOLEAN :
         LET e == EnterOn(sizeOk)
         IN  /\ cache' = e.cache
             /\ old_vals' = e.old_vals
             /\ store' = e.store
             /\ scopes' = IF e.err = "none"
                          THEN Append(Unclean(scopes), Opened(e.store))
                          ELSE Failed(scopes)
             /\ last' = IF sizeOk
                        THEN [CallRecord("enter", SumLens(store), seeds.v, e)
                                EXCEPT !.ret = IF e.err = "none" THEN "self"
                                               ELSE "None"]
                        ELSE [NoCall EXCEPT !.op = "enter", !.err = e.err,
                                            !.chain = seeds.v, !.pre = store,
                                            !.cache0 = cache]
    /\ Step
    /\ UNCHANGED <<noise, max_cache, seeds, history>>

ExitFirstOnly ==
    [i \in 1..Len(store) |-> IF i = 1 THEN old_vals.v[i] ELSE store[i]]

\* What __exit__ writes: self._old_vals, whatever the store holds.
ExitValues == old_vals.v

\* __exit__, called by the with statement when the body returns (exc is
\* FALSE) or raises (exc is TRUE); it returns None, so the exception goes on.
Exit(exc) ==
    /\ MayStep
    /\ scopes # <<>>
    /\ store' = ExitValues
    /\ scopes' = SubSeq(scopes, 1, Len(scopes) - 1)
    /\ LET scope == scopes[Len(scopes)]
       IN  last' = [NoCall EXCEPT !.op = "exit", !.exc = exc, !.pre = scope.pre,
                                  !.clean = scope.clean, !.wrote = scope.wrote,
                                  !.failed = scope.failed,
                                  !.moved = scope.moved, !.cache0 = cache]
    /\ Step
    /\ UNCHANGED <<source, seeds, old_vals, history>>

\* The owner of the variables assigns to one of them.
ExternalWrite(i, v) ==
    /\ MayStep
    /\ i \in 1..Len(store)
    /\ store' = [store EXCEPT ![i] = [j \in DOMAIN @ |-> v]]
    /\ scopes' = Written(scopes)
    /\ last' = [NoCall EXCEPT !.op = "write", !.pre = store, !.cache0 = cache]
    /\ Step
    /\ UNCHANGED <<source, seeds, old_vals, history>>

----------------------------------------------------------------------------
(* cumulative_block, statement by statement, for callers that share the
   NoiseSource.  block reads the table alone, which nothing writes, so the
   statements up to the cache lookup are one step. *)

StoredAccumulating(c, cache_key, prefix) ==
    IF cache_key \in DOMAIN c
    THEN (cache_key :> VecAdd(c[cache_key], prefix).val) @@ c
    ELSE (cache_key :> prefix) @@ c

\* self._cache[cache_key] = prefix
Stored(c, cache_key, prefix) ==
    (cache_key :> prefix) @@ [k \in DOMAIN c \ {cache_key} |-> c[k]]

\* Lines 39-44: the empty chain and the chain of one return; a longer chain
\* goes on to the lookup with its final block and its key.
Began(size, mutations) ==
    LET this == [Idle EXCEPT !.size = size, !.chain = mutations]
    IN  IF mutations = <<>>
        THEN [this EXCEPT !.pc = "returned", !.val = Zeros(size)]
        ELSE
          LET final == mutations[Len(mutations)]
              sampled == block(size, final[1])
          IN  IF sampled.err # "none"
              THEN [this EXCEPT !.pc = "returned", !.err = sampled.err]
              ELSE IF Len(mutations) = 1
              THEN [this EXCEPT !.pc = "returned",
                                !.val = VecScale(sampled.val, final[2])]
              ELSE [this EXCEPT !.pc = "lookup",
                                !.final_block = VecScale(sampled.val, final[2]),
                                !.cache_key = CacheKey(mutations)]

\* The callers use one size: the first call fixes it.
Begin(t, size, mutations) ==
    /\ MayCall
    /\ threads[t].pc \in {"idle", "returned"}
    /\ sizes \subseteq {size}
    /\ threads' = [threads EXCEPT ![t] = Began(size, mutations)]
    /\ sizes' = sizes \cup {size}
    /\ calls' = calls - 1
    /\ UNCHANGED <<source, adder, last, seen, evicted, returned, generated,
                   configured, ops>>

ThreadStep ==
    UNCHANGED <<noise, max_cache, adder, last, history, generated, configured,
                calls, ops>>

\* Line 45: if cache_key in self._cache
Lookup(t) ==
    /\ threads[t].pc = "lookup"
    /\ threads' = [threads EXCEPT ![t].pc =
                       IF threads[t].cache_key \in DOMAIN cache
                       THEN "hit" ELSE "miss"]
    /\ cache' = cache
    /\ ThreadStep

\* Line 46: return self._cache[cache_key] + final_block
ReturnHit(t) ==
    /\ threads[t].pc = "hit"
    /\ LET this == threads[t]
           r == IF this.cache_key \in DOMAIN cache
                THEN VecAdd(cache[this.cache_key], this.final_block)
                ELSE Raise("KeyError")
       IN  threads' = [threads EXCEPT ![t].pc = "returned", ![t].err = r.err,
                                      ![t].val = r.val]
    /\ cache' = cache
    /\ ThreadStep

\* Line 47: prefix = np.sum(...)
ComputePrefix(t) ==
    /\ threads[t].pc = "miss"
    /\ threads' = [threads EXCEPT ![t].pc = "store",
                                  ![t].prefix = SumBlocks(threads[t].size,
                                                          threads[t].cache_key)]
    /\ cache' = cache
    /\ ThreadStep

\* Line 48: self._cache[cache_key] = prefix
StorePrefix(t) ==
    /\ threads[t].pc = "store"
    /\ cache' = Stored(cache, threads[t].cache_key, threads[t].prefix)
    /\ threads' = [threads EXCEPT ![t].pc = "sum",
                                  ![t].raced = threads[t].cache_key \in DOMAIN cache]
    /\ ThreadStep

\* Line 49: return prefix + final_block
ReturnMiss(t) ==
    /\ threads[t].pc = "sum"
    /\ LET r == VecAdd(threads[t].prefix, threads[t].final_block)
       IN  threads' = [threads EXCEPT ![t].pc = "returned", ![t].err = r.err,
                                      ![t].val = r.val]
    /\ cache' = cache
    /\ ThreadStep

----------------------------------------------------------------------------
(* noise_seeds *)

SeedHighInclusive == Wide(Limb, 1)

\* high=2**32
SeedHigh == Wide(Limb, 0)

\* np.random.randint(0, high=high, size=size) on the global generator, whose
\* state is not known: each element is any integer from 0 to high - 1, held
\* in 64 bits.  Of these the least two and the greatest stand for all.
GlobalRandint(high, size) ==
    IF size < 0 THEN {Raise("ValueError: negative dimensions")}
    ELSE IF ~WideLess(Wide(0, 0), high) THEN {Raise("ValueError: low >= high")}
    ELSE {Ok(q) : q \in SeqsOver({Wide(0, 0), Wide(0, 1), WidePred(high)}, size)}

\* [int(x) for x in ...]: int() of a 64-bit integer is the integer.
noise_seeds(num_seeds) == GlobalRandint(SeedHigh, num_seeds)

NoiseSeeds(num_seeds) ==
    /\ MayCall
    /\ \E r \in noise_seeds(num_seeds) :
         /\ generated' = r.val
         /\ last' = [NoCall EXCEPT !.op = "noise_seeds", !.size = num_seeds,
                                   !.err = r.err, !.pre = store, !.cache0 = cache]
    /\ calls' = calls - 1
    /\ ops' = ops
    /\ UNCHANGED <<source, adder, history, configured, threads>>

\* block(size, generated[i]).  The stream of a seed is fixed by the seed's
\* low bits.
BlockSeeded(size, i) ==
    /\ MayCall
    /\ i \in 1..Len(generated)
    /\ LET r == IF SeedAccepted(generated[i]) THEN block(size, generated[i].lo)
                ELSE Raise("ValueError: seed")
       IN  last' = [NoCall EXCEPT !.op = "block_seeded", !.size = size, !.seed = i,
                                  !.err = r.err, !.val = r.val, !.samples = 1,
                                  !.pre = store, !.cache0 = cache]
    /\ Call
    /\ UNCHANGED <<source, adder, history>>

----------------------------------------------------------------------------
(* Specifications *)

\* The NoiseAdder on its variables, the owner of the variables writing to
\* them, and a caller using the shared NoiseSource directly.
Next ==
    \/ \E size \in DirectSizes, mutations \in DirectChains : CumulativeBlock(size, mutations)
    \/ EvictCache
    \/ \E mutations \in SeedChains : Seed(mutations)
    \/ Enter
    \/ \E exc \in BOOLEAN : Exit(exc)
    \/ \E i \in 1..2, v \in ExtVals : ExternalWrite(i, v)

Spec == Init /\ [][Next]_vars

\* A caller of the NoiseSource alone.
NextSource ==
    \/ \E size \in Sizes, seed \in Seeds : Block(size, seed)
    \/ \E size \in Sizes, mutations \in Chains : CumulativeBlock(size, mutations)
    \/ \E size \in EmptySizes : CumulativeBlock(size, <<>>)
    \/ \E v \in ExtVals : WriteResult(v)
    \/ EvictCache

SourceSpec == InitSource /\ [][NextSource]_vars

\* A NoiseAdder alone with its variables: with blocks, one inside another.
InitScopes ==
    /\ \E shape \in Shapes : Constructed(TableLen, shape)
    /\ calls = 0
    /\ ops = MaxScopeOps

NextScopes ==
    \/ \E mutations \in SeedChains : Seed(mutations)
    \/ Enter
    \/ \E exc \in BOOLEAN : Exit(exc)
    \/ \E i \in 1..2, v \in ExtVals : ExternalWrite(i, v)

ScopeSpec == InitScopes /\ [][NextScopes]_vars

\* Callers of cumulative_block on one NoiseSource, their statements
\* interleaved, all with one size and with no eviction.
InitThreads ==
    /\ Constructed(TableLen, <<1>>)
    /\ calls = MaxCalls
    /\ ops = 0

NextThreads ==
    \/ \E t \in Callers, size \in Sizes, mutations \in Chains : Begin(t, size, mutations)
    \/ \E t \in Callers : Lookup(t)
    \/ \E t \in Callers : ReturnHit(t)
    \/ \E t \in Callers : ComputePrefix(t)
    \/ \E t \in Callers : StorePrefix(t)
    \/ \E t \in Callers : ReturnMiss(t)

ThreadSpec == InitThreads /\ [][NextThreads]_vars

\* A caller that generates seeds and samples blocks with them.
InitSeeds ==
    /\ Constructed(TableLen, <<1>>)
    /\ calls = MaxCalls
    /\ ops = 0

NextSeeds ==
    \/ \E num_seeds \in SeedCounts : NoiseSeeds(num_seeds)
    \/ \E size \in Sizes, i \in 1..MaxSeeds : BlockSeeded(size, i)

SeedsSpec == InitSeeds /\ [][NextSeeds]_vars

----------------------------------------------------------------------------
(* Properties *)

\* The weighted sum of the blocks of a chain, formed block by block in chain
\* order with no cache: what cumulative_block is documented to return.
DirectSum(size, chain) ==
    IF chain = <<>> THEN Ok(Zeros(size))
    ELSE IF block(size, chain[1][1]).err # "none" THEN block(size, chain[1][1])
    ELSE Ok(SumBlocks(size, chain))

\* The part of a flat vector that belongs to the i-th of the arrays
Chunk(nz, arrays, i) ==
    LET before == SumLens(SubSeq(arrays, 1, i - 1))
    IN  SubSeq(nz, before + 1, before + Len(arrays[i]))

Perturbed(arrays, nz) ==
    [i \in 1..Len(arrays) |-> VecAdd(arrays[i], Chunk(nz, arrays, i)).val]

\* C1: when a with block is entered and then left, with no other entry
\* attempted inside it, the store after __exit__ equals the store before
\* __enter__: when the body returned, when it raised, and when the store was
\* written from outside inside the block.
ScopeRoundTrip ==
    (last.op = "exit" /\ last.clean) => store = last.pre

\* A block whose entry changed the store, whose body wrote to the store and
\* then raised, has been left.
ScopeRoundTripWitness ==
    /\ last.op = "exit"
    /\ last.clean
    /\ last.exc
    /\ last.wrote
    /\ last.moved
    /\ Len(store) = 2
    /\ store = last.pre

\* C2: right after a successful __enter__ the noise vector has as many
\* elements as the variables together, it is the weighted sum of the chain's
\* blocks at that size, and each variable holds its value from before plus
\* its own chunk of that vector, the chunks taken in order.
PerturbationCorrect ==
    (last.op = "enter" /\ last.err = "none") =>
        /\ Len(last.val) = SumLens(last.pre)
        /\ last.val = DirectSum(SumLens(last.pre), last.chain).val
        /\ store = Perturbed(last.pre, last.val)

\* C6: an __enter__ that raises, whether in computing the size, in
\* cumulative_block or in splitting the noise, leaves the store as it was;
\* one that returns has written every variable.
AcquisitionAllOrNothing ==
    /\ (last.op = "enter" /\ last.err # "none") => store = last.pre
    /\ (last.op = "enter" /\ last.err = "none") =>
           store = Perturbed(last.pre, last.val)

\* cumulative_block raised inside __enter__, on a store of two variables.
AcquisitionWitness ==
    /\ last.op = "enter"
    /\ last.err = "ValueError: broadcast"
    /\ last.hit
    /\ Len(store) = 2
    /\ store = last.pre

\* C3: when every direct call of cumulative_block so far used one size, a
\* call with that size returns, whatever the cache holds, what it returns on
\* a cache that is empty.
CacheTransparency ==
    (last.op = "cumulative_block" /\ sizes = {last.size}) =>
        LET fresh == CumulativeBlockOn(<<>>, last.size, last.chain)
        IN  last.err = fresh.err /\ last.val = fresh.val

\* A chain of three mutations was answered from a cached prefix.
CacheTransparencyWitness ==
    /\ last.op = "cumulative_block"
    /\ sizes = {last.size}
    /\ last.size = 2
    /\ Len(last.chain) = 3
    /\ last.hit
    /\ last.err = "none"
    /\ last.val # Zeros(2)

\* C4: cumulative_block(size, m) is the sum, in chain order, of
\* block(size, seed) * scale over the pairs of m.
Additivity ==
    last.op = "cumulative_block" =>
        LET direct == DirectSum(last.size, last.chain)
        IN  last.err = direct.err /\ last.val = direct.val

\* C5: a call whose prefix was cached at another size raises, or returns a
\* vector of the size asked for that is the weighted sum at that size.
SizeMismatchRejected ==
    (last.op = "cumulative_block" /\ last.hit /\ last.hitLen # last.size) =>
        \/ last.err # "none"
        \/ /\ Len(last.val) = last.size
           /\ last.val = DirectSum(last.size, last.chain).val

\* C8: the cached vectors never hold more than max_cache elements together.
CacheBounded == _cache_size <= max_cache

\* C9: _evict_cache returns without error with the cache in budget, every
\* entry it kept unchanged, and the cache untouched when it was in budget.
EvictionWorks ==
    last.op = "evict" =>
        /\ last.err = "none"
        /\ _cache_size <= max_cache
        /\ \A k \in DOMAIN cache :
               k \in DOMAIN last.cache0 /\ cache[k] = last.cache0[k]
        /\ ~last.over => cache = last.cache0

\* C7 as claimed: with all calls at one size, once cumulative_block has been
\* called for a chain m, a call for m plus one more mutation, and a call for
\* m again, sample exactly one block.
AppendSamplesOneBlock ==
    (/\ last.op = "cumulative_block"
     /\ sizes = {last.size}
     /\ last.err = "none"
     /\ last.chain # <<>>
     /\ last.appended \/ last.requeried) => last.samples = 1

\* C7 as the code has it: a call for a chain of one mutation, or for a chain
\* whose prefix (all but the last mutation) is in the cache, samples one
\* block, and any other call one block per mutation; the prefix is in the
\* cache once a call for a chain with that prefix has sampled its last block
\* and nothing has been evicted, and is not before such a call.
AppendCost ==
    (last.op = "cumulative_block" /\ last.err # "ValueError: low >= high") =>
        /\ last.samples = IF last.chain = <<>> THEN 0
                          ELSE IF Len(last.chain) = 1 \/ last.hit THEN 1
                          ELSE Len(last.chain)
        /\ (last.warm /\ ~last.evicted) => last.hit
        /\ (Len(last.chain) >= 2 /\ ~last.warm) => ~last.hit

\* A chain of three mutations whose prefix an earlier call for another chain
\* left in the cache took one block.
AppendCostWitness ==
    /\ last.op = "cumulative_block"
    /\ Len(last.chain) = 3
    /\ last.warm
    /\ ~last.requeried
    /\ ~last.evicted
    /\ last.err = "none"
    /\ last.samples = 1

\* C10: the table is the one its seed and size determine and never changes;
\* a direct call of block changes no cache entry and returns what the first
\* direct call with the same size and seed returned, whatever was called in
\* between.
BlockDeterminism ==
    /\ noise = NoiseTable(DefaultSeed, Len(noise))
    /\ last.op = "block" => cache = last.cache0
    /\ (last.op = "block" /\ returned.size = last.size
                          /\ returned.seed = last.seed) =>
           (last.err = returned.err /\ last.val = returned.val)

\* block returned a block of two values after having returned it for the
\* same size and seed when the cache held something else.
BlockDeterminismWitness ==
    /\ last.op = "block"
    /\ returned.op = "block"
    /\ returned.size = last.size
    /\ returned.seed = last.seed
    /\ returned.cache0 # cache
    /\ last.size = 2
    /\ last.err = "none"

\* C11: cumulative_block(n, []) returns n values, every one of them zero,
\* for n = 0 as for n > 0, on an empty table as on a full one; it calls block
\* not once and leaves the cache as it was.
EmptyChainZeros ==
    (last.op = "cumulative_block" /\ last.chain = <<>>) =>
        /\ last.err = "none"
        /\ Len(last.val) = last.size
        /\ \A i \in 1..Len(last.val) : last.val[i] = 0
        /\ last.samples = 0
        /\ cache = last.cache0

\* The empty chain was asked for at size 2 with a prefix in the cache.
EmptyChainWitness ==
    /\ last.op = "cumulative_block"
    /\ last.chain = <<>>
    /\ last.size = 2
    /\ last.val = <<0, 0>>
    /\ DOMAIN cache # {}

\* C12: an __enter__ that obtained a noise vector with fewer or with more
\* elements than the variables have together raises and leaves the store as
\* it was.
ShapeMismatchChecked ==
    (/\ last.op = "enter"
     /\ last.err \in {"none", "ValueError: reshape"}
     /\ Len(last.val) # SumLens(last.pre)) =>
        (last.err # "none" /\ store = last.pre)

\* C13: the constructor raises for a table length of 0 or less, so that a
\* NoiseSource that exists has a table of one value at least.
TableLengthRejected == Len(noise) >= 1

\* C14: noise_seeds(count) returns count integers, each at least 0 and less
\* than 2^32, and block takes every one of them as a seed.
SeedsInRange ==
    /\ last.op = "noise_seeds" =>
           /\ last.err = "none"
           /\ Len(generated) = last.size
           /\ \A i \in 1..Len(generated) :
                  /\ generated[i].hi >= 0
                  /\ WideLess(generated[i], Wide(Limb, 0))
                  /\ SeedAccepted(generated[i])
    /\ last.op = "block_seeded" => last.err = "none"

\* block has returned two values for the greatest seed noise_seeds returns.
SeedsInRangeWitness ==
    /\ last.op = "block_seeded"
    /\ Len(generated) = 2
    /\ generated[last.seed] = Wide(Limb - 1, Limb - 1)
    /\ last.err = "none"
    /\ Len(last.val) = 2

\* C15: a call of cumulative_block that returns, for a chain of two
\* mutations or more whose prefix (all but the last) is not in the cache,
\* adds one entry under that prefix and leaves every other entry as it was;
\* any other call (empty chain, one mutation, prefix in the cache, or a call
\* that raises) leaves the cache as it was.
CacheFrame ==
    last.op = "cumulative_block" =>
        LET key == SubSeq(last.chain, 1, Len(last.chain) - 1)
            miss == Len(last.chain) >= 2 /\ key \notin DOMAIN last.cache0
        IN  IF miss /\ last.err = "none"
            THEN /\ DOMAIN cache = DOMAIN last.cache0 \cup {key}
                 /\ \A k \in DOMAIN last.cache0 : cache[k] = last.cache0[k]
            ELSE cache = last.cache0

\* A chain of three mutations missed a cache that held another prefix.
CacheFrameWitness ==
    /\ last.op = "cumulative_block"
    /\ Len(last.chain) = 3
    /\ last.err = "none"
    /\ DOMAIN last.cache0 # {}
    /\ SubSeq(last.chain, 1, 2) \notin DOMAIN last.cache0
    /\ DOMAIN cache = DOMAIN last.cache0 \cup {SubSeq(last.chain, 1, 2)}

\* C16: a call of seed returns the NoiseAdder it was called on and changes
\* nothing but _seeds, which becomes its argument: the store, _old_vals, the
\* table and the cache stay as they were.  An __enter__ that returns has
\* obtained its noise from cumulative_block with the argument of the last
\* call of seed before it.
SeedConfigures ==
    [][/\ last'.op = "seed" =>
            /\ last'.ret = "self"
            /\ seeds' = Some(last'.chain)
            /\ UNCHANGED <<store, old_vals, scopes, source>>
       /\ (last'.op = "enter" /\ last'.err = "none") =>
            LET r == CumulativeBlockOn(cache, SumLens(store), configured)
            IN  /\ last'.val = r.val
                /\ cache' = r.cache
                /\ store' = Perturbed(store, r.val)]_vars

\* __enter__ has returned, having changed the store with the noise of the
\* chain of two mutations that was given to seed.
SeedConfiguresWitness ==
    /\ last.op = "enter"
    /\ last.err = "none"
    /\ Len(configured) = 2
    /\ last.chain = configured
    /\ seeds = Some(configured)
    /\ store # last.pre
    /\ Len(scopes) = 1

\* The weighted sum of the blocks of a chain, element by element.
RECURSIVE ElementSum(_, _, _)
ElementSum(size, chain, i) ==
    IF chain = <<>> THEN 0
    ELSE ElementSum(size, SubSeq(chain, 1, Len(chain) - 1), i)
         + block(size, chain[Len(chain)][1]).val[i] * chain[Len(chain)][2]

\* C17: while every direct call of cumulative_block has used one size, every
\* key of the cache is a chain of one mutation at least and its entry is the
\* weighted sum at that size of the blocks of the key's mutations, whatever
\* calls came after the one that stored it and whatever the callers wrote
\* into the arrays they were given.
CacheEntriesValid ==
    \A size \in sizes :
        sizes = {size} =>
            \A k \in DOMAIN cache :
                /\ Len(k) >= 1
                /\ cache[k] = [i \in 1..size |-> ElementSum(size, k, i)]

\* The caller has overwritten the result it got for a chain whose prefix
\* of two mutations is in the cache, with another prefix beside it.
CacheEntriesWitness ==
    /\ last.op = "write_result"
    /\ sizes = {2}
    /\ Len(last.chain) = 3
    /\ CacheKey(last.chain) \in DOMAIN cache
    /\ Cardinality(DOMAIN cache) = 2
    /\ last.val = <<7, 7>>

\* C18: when the outermost of several with blocks on one NoiseAdder, entered
\* one inside another and left in reverse order, has been left, the store
\* holds what it held before that block was entered (no write from outside
\* and no failed entry having happened inside it).
NestedRoundTrip ==
    (/\ last.op = "exit"
     /\ scopes = <<>>
     /\ ~last.wrote
     /\ ~last.failed) => store = last.pre

\* C19: with callers whose statements interleave, all using one size and
\* with no eviction, every call that has returned has returned what the call
\* returns when it runs alone on an empty cache, which is what any serial
\* order returns, and every cache entry is the weighted sum of the blocks
\* of its key.
InterleavedCacheUse ==
    /\ \A t \in Callers :
           threads[t].pc = "returned" =>
               LET alone == CumulativeBlockOn(<<>>, threads[t].size, threads[t].chain)
               IN  threads[t].err = alone.err /\ threads[t].val = alone.val
    /\ \A size \in sizes : \A k \in DOMAIN cache :
           cache[k] = [i \in 1..size |-> ElementSum(size, k, i)]

\* Two callers missed the same prefix of two mutations; the one that stored
\* it second has returned, and so has the other.
InterleavedWitness ==
    \E t \in Callers, u \in Callers :
        /\ t # u
        /\ threads[t].pc = "returned"
        /\ threads[t].raced
        /\ Len(threads[t].chain) = 3
        /\ threads[t].size = 2
        /\ threads[t].err = "none"
        /\ threads[u].pc = "returned"
        /\ threads[u].prefix # <<>>
        /\ threads[u].cache_key = threads[t].cache_key
        /\ threads[u].chain # threads[t].chain

====
